---- MODULE Spec2Model ----
(***************************************************************************)
(* Model of the reliability-metrics engine of the maintenance application  *)
(* (src/src/mantenimiento/utils/kpi_calculator.py, class KPICalculator).   *)
(*                                                                         *)
(* The engine is a set of pure functions.  Each function is an operator,   *)
(* computed the way the Python code computes it, and each call is one      *)
(* action: a caller that is idle picks the arguments from a bounded set,   *)
(* the call runs to completion and leaves its outcome in ret; Volver       *)
(* hands control back.                                                     *)
(*                                                                         *)
(* Numbers.  Python floats are modelled as exact rationals <<n, d>> in     *)
(* lowest terms with d > 0.  Instants (datetime) are whole seconds since   *)
(* 2024-01-01T00:00:00; durations in hours are rationals.                  *)
(*                                                                         *)
(* Python values that may be missing are tagged records [tag, v]:          *)
(*   tag = "absent"  the key is not in the mapping                         *)
(*   tag = "none"    the key is there with value None                      *)
(*   tag = "str"     a string; a timestamp string is <<dia, h, min, s>>,   *)
(*                   read "2024-01-<dia>T<h>:<min>:<s>"                    *)
(*   tag = "num"     a number, v = <<integer>>                             *)
(*                                                                         *)
(* Callers that share one snapshot of the records are modelled apart, in   *)
(* SpecConcurrente: each call is begun and ended in separate steps, so the *)
(* calls of different callers interleave.                                  *)
(*                                                                         *)
(* The record classes Falla and OrdenTrabajo (models/falla.py,             *)
(* models/orden_trabajo.py) are objects with state: each method is an      *)
(* operator from the object to the object after the call, and one action   *)
(* that applies it (SpecFalla, SpecOrden).  op and args record the method  *)
(* last called and its arguments.  Enum members are the strings of their   *)
(* values, written without accents.                                        *)
(*                                                                         *)
(* Outcomes.  A call either returns a value, [exc |-> "None", val |-> v],  *)
(* or raises, [exc |-> <exception class>, val |-> <<>>].                   *)
(***************************************************************************)
EXTENDS Integers, Sequences, FiniteSets, TLC

VARIABLES pc, op, args, ret, snapshot, snapshot0, llamadas,
          obj_falla, ha_sido, obj_orden, reloj

\* pc, op, args, ret: one caller and the call it makes.
\* snapshot: the records <<fallas, ordenes_trabajo>> several callers share (the
\* Python lists are passed by reference); snapshot0: its value when the
\* callers were handed it; llamadas: each of those callers' call.
\* obj_falla: a Falla object; ha_sido: the statuses it has had since it was
\* created; obj_orden: an OrdenTrabajo object; reloj: the reading of
\* datetime.now(), in seconds.
compartidas == <<snapshot, snapshot0, llamadas>>
registros == <<obj_falla, ha_sido, obj_orden, reloj>>
vars == <<pc, op, args, ret, snapshot, snapshot0, llamadas, obj_falla, ha_sido, obj_orden, reloj>>

(***************************************************************************)
(* Bounds of the model.                                                    *)
(***************************************************************************)
MaxFechas == 4
MaxTiempos == 4
MaxMtbf == 8
MaxMttr == 8
MaxFallas == 3
MaxOrdenes == 2
MaxFallasReporte == 3
MaxCausas == 7
MaxSnapshot == 2
NumLlamadores == 2
MaxReloj == 2
MaxAcciones == 2
MaxMateriales == 2

(***************************************************************************)
(* Exact rational arithmetic standing for Python's float arithmetic.       *)
(***************************************************************************)
Abs(x) == IF x < 0 THEN -x ELSE x

RECURSIVE Gcd(_, _)
Gcd(a, b) == IF b = 0 THEN a ELSE Gcd(b, a % b)

Rat(n, d) ==
    LET s == IF d < 0 THEN -1 ELSE 1
        g == Gcd(Abs(n), Abs(d))
    IN  <<(s * n) \div g, (s * d) \div g>>

Zero == <<0, 1>>
One == <<1, 1>>
FromInt(i) == <<i, 1>>
RAdd(x, y) == Rat(x[1] * y[2] + y[1] * x[2], x[2] * y[2])
RDivRat(x, y) == Rat(x[1] * y[2], x[2] * y[1])
RLe(x, y) == x[1] * y[2] <= y[1] * x[2]
RLt(x, y) == x[1] * y[2] < y[1] * x[2]
RIsZero(x) == x[1] = 0

RECURSIVE RSum(_)
RSum(s) == IF s = <<>> THEN Zero ELSE RAdd(Head(s), RSum(Tail(s)))

(***************************************************************************)
(* Outcomes of a call.                                                     *)
(***************************************************************************)
Ok(v) == [exc |-> "None", val |-> v]
Raise(e) == [exc |-> e, val |-> <<>>]
Returned(r) == r.exc = "None"

(***************************************************************************)
(* sorted(): ascending order, duplicates kept.                             *)
(***************************************************************************)
RECURSIVE Insert(_, _)
Insert(x, s) ==
    IF s = <<>> THEN <<x>>
    ELSE IF x <= Head(s) THEN <<x>> \o s
    ELSE <<Head(s)>> \o Insert(x, Tail(s))

RECURSIVE sorted_sin_duplicados(_)
sorted_sin_duplicados(s) ==
    IF s = <<>> THEN <<>>
    ELSE LET r == sorted_sin_duplicados(Tail(s))
         IN  IF \E i \in 1..Len(r) : r[i] = Head(s) THEN r ELSE Insert(Head(s), r)

RECURSIVE sorted(_)
sorted(s) == IF s = <<>> THEN <<>> ELSE Insert(Head(s), sorted(Tail(s)))

(***************************************************************************)
(* KPICalculator.calcular_mtbf(fechas_fallas) -> (mtbf, intervalos).       *)
(* fechas_fallas is a sequence of instants in seconds.                     *)
(***************************************************************************)
SecondsPerHour == 3600

\* delta.total_seconds() / 3600 for each pair of neighbours
diferencias(fechas_ordenadas) ==
    [i \in 1..(Len(fechas_ordenadas) - 1) |->
        Rat(fechas_ordenadas[i + 1] - fechas_ordenadas[i], SecondsPerHour)]

\* sum(xs) / len(xs), a ZeroDivisionError on an empty list
Mean(xs) ==
    IF Len(xs) = 0 THEN Raise("ZeroDivisionError")
    ELSE Ok(RDivRat(RSum(xs), FromInt(Len(xs))))

calcular_mtbf_sin_guardas(fechas_fallas) ==
    LET difs == diferencias(sorted(fechas_fallas))
        m == Mean(difs)
    IN  IF Returned(m) THEN Ok(<<m.val, Len(difs)>>) ELSE m

calcular_mtbf_sin_ordenar(fechas_fallas) ==
    IF Len(fechas_fallas) < 2 THEN Ok(<<Zero, 0>>)
    ELSE LET difs == diferencias(fechas_fallas)
         IN  Ok(<<Mean(difs).val, Len(difs)>>)

calcular_mtbf(fechas_fallas) ==
    IF Len(fechas_fallas) < 2 THEN Ok(<<Zero, 0>>)
    ELSE LET fechas_ordenadas == sorted(fechas_fallas)
             difs == diferencias(fechas_ordenadas)
         IN  IF Len(difs) = 0 THEN Ok(<<Zero, 0>>)
             ELSE Ok(<<Mean(difs).val, Len(difs)>>)

(***************************************************************************)
(* KPICalculator.calcular_mttr(tiempos_reparacion) -> mttr.                *)
(* tiempos_reparacion is a sequence of rationals (hours).                  *)
(***************************************************************************)
calcular_mttr_sin_ceros(tiempos_reparacion) ==
    LET nz == SelectSeq(tiempos_reparacion, LAMBDA t : ~RIsZero(t))
    IN  IF Len(nz) = 0 THEN Ok(Zero) ELSE Mean(nz)

calcular_mttr(tiempos_reparacion) ==
    IF Len(tiempos_reparacion) = 0 THEN Ok(Zero)
    ELSE Mean(tiempos_reparacion)

(***************************************************************************)
(* KPICalculator.calcular_disponibilidad(mtbf, mttr) -> disponibilidad.    *)
(***************************************************************************)
calcular_disponibilidad_sin_guarda(mtbf, mttr) ==
    LET den == RAdd(mtbf, mttr)
    IN  IF RIsZero(den) THEN Raise("ZeroDivisionError")
        ELSE Ok(RDivRat(mtbf, den))

calcular_disponibilidad_invertida(mtbf, mttr) ==
    IF RLe(mtbf, Zero) THEN Ok(Zero)
    ELSE LET den == RAdd(mtbf, mttr)
         IN  IF RIsZero(den) THEN Raise("ZeroDivisionError")
             ELSE Ok(RDivRat(mttr, den))

calcular_disponibilidad(mtbf, mttr) ==
    IF RLe(mtbf, Zero) THEN Ok(Zero)
    ELSE LET den == RAdd(mtbf, mttr)
         IN  IF RIsZero(den) THEN Raise("ZeroDivisionError")
             ELSE Ok(RDivRat(mtbf, den))

(***************************************************************************)
(* Python values that may be missing.                                      *)
(***************************************************************************)
Absent == [tag |-> "absent", v |-> <<>>]
None == [tag |-> "none", v |-> <<>>]
Str(t) == [tag |-> "str", v |-> t]
Num(i) == [tag |-> "num", v |-> <<i>>]

\* bool(x) of a value read with dict.get(): a missing key reads as None
Truthy(x) ==
    \/ x.tag = "str" /\ x.v # <<>>
    \/ x.tag = "num" /\ x.v[1] # 0

\* the outcome of a comprehension over outcomes: the first exception raised,
\* else the list of the values
Collect(outs) ==
    IF \E i \in 1..Len(outs) : ~Returned(outs[i])
    THEN outs[CHOOSE i \in 1..Len(outs) :
                 /\ ~Returned(outs[i])
                 /\ \A j \in 1..(i - 1) : Returned(outs[j])]
    ELSE Ok([i \in 1..Len(outs) |-> outs[i].val])

(***************************************************************************)
(* datetime.fromisoformat on a timestamp string <<dia, h, min, s>> of      *)
(* January 2024: the instant in seconds, a ValueError when a field is out  *)
(* of range, a TypeError when the argument is no string.                   *)
(***************************************************************************)
SecondsPerDay == 86400

fromisoformat(x) ==
    IF x.tag # "str" THEN Raise("TypeError")
    ELSE IF Len(x.v) # 4 THEN Raise("ValueError")
    ELSE IF /\ x.v[1] \in 1..31
            /\ x.v[2] \in 0..23
            /\ x.v[3] \in 0..59
            /\ x.v[4] \in 0..59
         THEN Ok((x.v[1] - 1) * SecondsPerDay + x.v[2] * SecondsPerHour
                 + x.v[3] * 60 + x.v[4])
         ELSE Raise("ValueError")

(***************************************************************************)
(* KPICalculator.calcular_kpis_activo(fallas, ordenes_trabajo).            *)
(* A failure is [estado, fecha_reporte, tiempo_fuera_servicio_h]; a work   *)
(* order is [tipo, estado, fecha_fin, fecha_programada, costo_real].       *)
(* ordenes_trabajo is None or Lista(<sequence of work orders>).            *)
(***************************************************************************)
Lista(s) == [tag |-> "list", v |-> s]
SinOrdenes == [tag |-> "none", v |-> <<>>]

EstadosContados == {"Resuelta", "Cerrada", "COMPLETADA"}
TiposPreventivo == {"Preventivo", "PREVENTIVO", "preventivo"}
EstadosCompletada == {"Completada", "COMPLETADA"}

fallas_resueltas(fallas) ==
    SelectSeq(fallas, LAMBDA f : f.estado \in EstadosContados)

fechas_fallas(resueltas) ==
    LET con_fecha == SelectSeq(resueltas, LAMBDA f : f.fecha_reporte.tag # "absent")
    IN  Collect([i \in 1..Len(con_fecha) |-> fromisoformat(con_fecha[i].fecha_reporte)])

tiempos_reparacion(resueltas) ==
    LET con_tiempo == SelectSeq(resueltas,
                          LAMBDA f : f.tiempo_fuera_servicio_h.tag = "num")
    IN  [i \in 1..Len(con_tiempo) |-> FromInt(con_tiempo[i].tiempo_fuera_servicio_h.v[1])]

kpi_mttr(tiempos) ==
    IF Len(tiempos) # 0 THEN calcular_mttr(tiempos) ELSE Ok(Zero)

kpi_disponibilidad_sin_convenio(mtbf, mttr) == calcular_disponibilidad(mtbf, mttr)

kpi_disponibilidad(mtbf, mttr) ==
    IF RLt(Zero, mtbf) THEN calcular_disponibilidad(mtbf, mttr) ELSE Ok(One)

a_tiempo_estricto(ot) ==
    IF ot.estado \notin EstadosCompletada THEN Ok(FALSE)
    ELSE IF ~Truthy(ot.fecha_fin) THEN Ok(FALSE)
    ELSE IF ~Truthy(ot.fecha_programada) THEN Ok(FALSE)
    ELSE LET fin == fromisoformat(ot.fecha_fin)
         IN  IF ~Returned(fin) THEN fin
             ELSE LET prog == fromisoformat(ot.fecha_programada)
                  IN  IF ~Returned(prog) THEN prog
                      ELSE Ok(fin.val < prog.val + SecondsPerDay)

\* the condition of the generator at lines 139-143, evaluated left to right
a_tiempo(ot) ==
    IF ot.estado \notin EstadosCompletada THEN Ok(FALSE)
    ELSE IF ~Truthy(ot.fecha_fin) THEN Ok(FALSE)
    ELSE IF ~Truthy(ot.fecha_programada) THEN Ok(FALSE)
    ELSE LET fin == fromisoformat(ot.fecha_fin)
         IN  IF ~Returned(fin) THEN fin
             ELSE LET prog == fromisoformat(ot.fecha_programada)
                  IN  IF ~Returned(prog) THEN prog
                      ELSE Ok(fin.val <= prog.val + SecondsPerDay)

\* cumplimiento_preventivo: None, or Num-tagged with a rational percentage
cumplimiento_preventivo_cero(ordenes_trabajo) ==
    LET preventivos == SelectSeq(ordenes_trabajo.v,
                           LAMBDA ot : ot.tipo \in TiposPreventivo)
        marcas == Collect([i \in 1..Len(preventivos) |-> a_tiempo(preventivos[i])])
    IN  IF ~Returned(marcas) THEN marcas
        ELSE IF Len(preventivos) = 0 THEN Ok([tag |-> "num", v |-> Zero])
        ELSE Ok([tag |-> "num",
                 v |-> RDivRat(FromInt(Cardinality({i \in 1..Len(preventivos) :
                                                       marcas.val[i]}) * 100),
                               FromInt(Len(preventivos)))])

cumplimiento_preventivo(ordenes_trabajo) ==
    IF ordenes_trabajo.tag = "none" \/ Len(ordenes_trabajo.v) = 0
    THEN Ok([tag |-> "none", v |-> Zero])
    ELSE LET preventivos == SelectSeq(ordenes_trabajo.v,
                                LAMBDA ot : ot.tipo \in TiposPreventivo)
         IN  IF Len(preventivos) = 0 THEN Ok([tag |-> "none", v |-> Zero])
             ELSE LET marcas == Collect([i \in 1..Len(preventivos) |->
                                            a_tiempo(preventivos[i])])
                  IN  IF ~Returned(marcas) THEN marcas
                      ELSE LET completados_a_tiempo ==
                                   Cardinality({i \in 1..Len(preventivos) : marcas.val[i]})
                           IN  Ok([tag |-> "num",
                                   v |-> RDivRat(FromInt(completados_a_tiempo * 100),
                                                 FromInt(Len(preventivos)))])

RECURSIVE SumCostos(_)
SumCostos(s) ==
    IF s = <<>> THEN 0
    ELSE (IF Head(s).costo_real.tag = "num" THEN Head(s).costo_real.v[1] ELSE 0)
         + SumCostos(Tail(s))

costo_total_solo_completadas(ordenes_trabajo) ==
    IF ordenes_trabajo.tag = "none" \/ Len(ordenes_trabajo.v) = 0 THEN Zero
    ELSE FromInt(SumCostos(SelectSeq(ordenes_trabajo.v,
                               LAMBDA ot : ot.estado \in EstadosCompletada)))

costo_total(ordenes_trabajo) ==
    IF ordenes_trabajo.tag = "none" \/ Len(ordenes_trabajo.v) = 0 THEN Zero
    ELSE FromInt(SumCostos(ordenes_trabajo.v))

calcular_kpis_activo(fallas, ordenes_trabajo, ahora) ==
    LET resueltas == fallas_resueltas(fallas)
        fechas == fechas_fallas(resueltas)
    IN  IF ~Returned(fechas) THEN fechas
        ELSE
        LET mtbf == calcular_mtbf(fechas.val).val
            mttr == kpi_mttr(tiempos_reparacion(resueltas)).val
            disponibilidad == kpi_disponibilidad(mtbf[1], mttr)
        IN  IF ~Returned(disponibilidad) THEN disponibilidad
            ELSE
            LET cumplimiento == cumplimiento_preventivo(ordenes_trabajo)
            IN  IF ~Returned(cumplimiento) THEN cumplimiento
                ELSE Ok([mtbf_horas |-> mtbf[1],
                         mttr_horas |-> mttr,
                         disponibilidad |-> disponibilidad.val,
                         num_fallas |-> Len(resueltas),
                         num_intervalos_mtbf |-> mtbf[2],
                         cumplimiento_preventivo |-> cumplimiento.val,
                         costo_total_mantenimiento |-> costo_total(ordenes_trabajo),
                         ultima_actualizacion |-> ahora])

(***************************************************************************)
(* KPICalculator.generar_reporte_estadistico(fallas, periodo_inicio,       *)
(* periodo_fin).  A failure is here [estado, fecha_reporte,                *)
(* tiempo_fuera_servicio_h, costo_reparacion, causa_raiz]; a root cause is *)
(* the string Str(<<k>>), None or missing.  A period bound is None or a    *)
(* datetime Dt(seconds).  The empty mapping {} is <<>>; a frequency table  *)
(* (a dict in insertion order) is a sequence of <<key, count>> pairs.      *)
(***************************************************************************)
Dt(t) == [tag |-> "dt", v |-> <<t>>]
TopN == 5
NoEspecificada == Str(<<0>>)
ReporteVacio == <<>>
EsVacio(r) == DOMAIN r = {}

\* datetime.isoformat(): the timestamp string of an instant
isoformat(t) ==
    Str(<<(t \div SecondsPerDay) + 1,
          (t % SecondsPerDay) \div SecondsPerHour,
          (t % SecondsPerHour) \div 60,
          t % 60>>)

\* lines 198-199: outside the period
fuera_de_periodo_estricto(fecha_falla, periodo_inicio, periodo_fin) ==
    \/ periodo_inicio.tag = "dt" /\ fecha_falla <= periodo_inicio.v[1]
    \/ periodo_fin.tag = "dt" /\ fecha_falla >= periodo_fin.v[1]

fuera_de_periodo(fecha_falla, periodo_inicio, periodo_fin) ==
    \/ periodo_inicio.tag = "dt" /\ fecha_falla < periodo_inicio.v[1]
    \/ periodo_fin.tag = "dt" /\ fecha_falla > periodo_fin.v[1]

\* lines 191-203 without the try/except: the parse error propagates
filtrar_por_periodo_sin_try(fallas, periodo_inicio, periodo_fin) ==
    LET con_fecha == SelectSeq(fallas, LAMBDA f : f.fecha_reporte.tag # "absent")
        fechas == Collect([i \in 1..Len(con_fecha) |->
                              fromisoformat(con_fecha[i].fecha_reporte)])
    IN  IF ~Returned(fechas) THEN fechas
        ELSE Ok(SelectSeq(con_fecha,
                    LAMBDA f : ~fuera_de_periodo(fromisoformat(f.fecha_reporte).val,
                                                 periodo_inicio, periodo_fin)))

\* lines 191-203: the records kept by a bounded query, in input order
filtrar_por_periodo(fallas, periodo_inicio, periodo_fin) ==
    Ok(SelectSeq(fallas,
           LAMBDA f :
               /\ f.fecha_reporte.tag # "absent"
               /\ LET fecha_falla == fromisoformat(f.fecha_reporte)
                  IN  /\ Returned(fecha_falla)
                      /\ ~fuera_de_periodo(fecha_falla.val, periodo_inicio, periodo_fin)))

\* the values of a field that are there and not None, as rationals
valores_presentes(fallas, campo) ==
    LET con_valor == SelectSeq(fallas, LAMBDA f : f[campo].tag = "num")
    IN  [i \in 1..Len(con_valor) |-> FromInt(con_valor[i][campo].v[1])]

tiempo_promedio_sobre_todas(tiempos, num_fallas) ==
    IF Len(tiempos) # 0 THEN RDivRat(RSum(tiempos), FromInt(num_fallas)) ELSE Zero

\* np.mean(tiempos_reparacion) if tiempos_reparacion else 0
tiempo_promedio(tiempos, num_fallas) ==
    IF Len(tiempos) # 0 THEN Mean(tiempos).val ELSE Zero

\* falla.get('causa_raiz', 'No especificada')
causa_de(falla) ==
    IF falla.causa_raiz.tag = "absent" THEN NoEspecificada ELSE falla.causa_raiz

\* d[k] = d.get(k, 0) + 1 over the keys, the dict kept in insertion order
RECURSIVE contar(_, _)
contar(claves, tabla) ==
    IF claves = <<>> THEN tabla
    ELSE LET k == Head(claves)
         IN  contar(Tail(claves),
                    IF \E i \in 1..Len(tabla) : tabla[i][1] = k
                    THEN [i \in 1..Len(tabla) |->
                             IF tabla[i][1] = k
                             THEN <<k, tabla[i][2] + 1>> ELSE tabla[i]]
                    ELSE Append(tabla, <<k, 1>>))

RECURSIVE insertar_por_frecuencia_tras_iguales(_, _)
insertar_por_frecuencia_tras_iguales(x, r) ==
    IF r = <<>> \/ Head(r)[2] < x[2] THEN <<x>> \o r
    ELSE <<Head(r)>> \o insertar_por_frecuencia_tras_iguales(x, Tail(r))

\* x, which precedes every element of r in the input, goes before the first
\* element whose count is not larger: the sort is stable
RECURSIVE insertar_por_frecuencia(_, _)
insertar_por_frecuencia(x, r) ==
    IF r = <<>> \/ Head(r)[2] <= x[2] THEN <<x>> \o r
    ELSE <<Head(r)>> \o insertar_por_frecuencia(x, Tail(r))

\* sorted(items, key=lambda x: x[1], reverse=True)
RECURSIVE ordenar_por_frecuencia(_)
ordenar_por_frecuencia(tabla) ==
    IF tabla = <<>> THEN <<>>
    ELSE insertar_por_frecuencia(Head(tabla), ordenar_por_frecuencia(Tail(tabla)))

\* s[:n]
primeros(s, n) == SubSeq(s, 1, IF Len(s) < n THEN Len(s) ELSE n)

causas_raiz(fallas_filtradas) ==
    LET causas == [i \in 1..Len(fallas_filtradas) |-> causa_de(fallas_filtradas[i])]
    IN  primeros(ordenar_por_frecuencia(contar(causas, <<>>)), TopN)

\* pd.Series(estados).value_counts().head()
distribucion_por_estado(fallas_filtradas) ==
    LET estados == [i \in 1..Len(fallas_filtradas) |-> fallas_filtradas[i].estado]
    IN  primeros(ordenar_por_frecuencia(contar(estados, <<>>)), TopN)

\* lines 210-246: the report over a filtered set
reporte_de(fallas_filtradas, periodo_inicio, periodo_fin) ==
    LET tiempos == valores_presentes(fallas_filtradas, "tiempo_fuera_servicio_h")
        num_fallas == Len(fallas_filtradas)
        costos == valores_presentes(fallas_filtradas, "costo_reparacion")
    IN  [periodo_inicio |-> IF periodo_inicio.tag = "dt"
                            THEN isoformat(periodo_inicio.v[1]) ELSE None,
         periodo_fin |-> IF periodo_fin.tag = "dt"
                         THEN isoformat(periodo_fin.v[1]) ELSE None,
         total_fallas |-> num_fallas,
         tiempo_promedio_reparacion |-> tiempo_promedio(tiempos, num_fallas),
         tiempo_total_fuera_servicio |-> RSum(tiempos),
         costo_total_reparaciones |-> IF Len(costos) # 0 THEN RSum(costos) ELSE Zero,
         causas_raiz |-> causas_raiz(fallas_filtradas),
         distribucion_por_estado |-> distribucion_por_estado(fallas_filtradas)]

\* lines 189-205: the filtered set, the input itself when no bound is given
fallas_filtradas_de(fallas, periodo_inicio, periodo_fin) ==
    IF periodo_inicio.tag = "dt" \/ periodo_fin.tag = "dt"
    THEN filtrar_por_periodo(fallas, periodo_inicio, periodo_fin)
    ELSE Ok(fallas)

generar_reporte_estadistico_sin_guardas(fallas, periodo_inicio, periodo_fin) ==
    LET filtro == fallas_filtradas_de(fallas, periodo_inicio, periodo_fin)
    IN  IF ~Returned(filtro) THEN filtro
        ELSE Ok(reporte_de(filtro.val, periodo_inicio, periodo_fin))

generar_reporte_estadistico(fallas, periodo_inicio, periodo_fin) ==
    IF Len(fallas) = 0 THEN Ok(ReporteVacio)
    ELSE LET filtro == fallas_filtradas_de(fallas, periodo_inicio, periodo_fin)
         IN  IF ~Returned(filtro) THEN filtro
             ELSE IF Len(filtro.val) = 0 THEN Ok(ReporteVacio)
             ELSE Ok(reporte_de(filtro.val, periodo_inicio, periodo_fin))

(***************************************************************************)
(* Argument sets of the calls.                                             *)
(***************************************************************************)
SeqsUpTo(S, n) == UNION {[1..k -> S] : k \in 0..n}

\* instants: 01T00:00, 01T00:30, 02T00:00, 02T01:00
Instantes == {0, 1800, 86400, 90000}

\* repair durations in hours
Duraciones == {Zero, FromInt(2), FromInt(4), <<1, 2>>}

\* halves of an hour, negative values included
Medias(lo, hi) == {Rat(k, 2) : k \in lo..hi}

\* timestamp strings
F01 == Str(<<1, 0, 0, 0>>)
F03 == Str(<<3, 0, 0, 0>>)
F05 == Str(<<5, 0, 0, 0>>)
F06 == Str(<<6, 0, 0, 0>>)
F06s == Str(<<6, 0, 0, 1>>)
F08 == Str(<<8, 0, 0, 0>>)
FMala == Str(<<1, 25, 0, 0>>)

EstadosFalla == {"Resuelta", "Cerrada", "COMPLETADA", "Reportada"}

FallaDicts ==
    [estado : EstadosFalla, fecha_reporte : {F01}, tiempo_fuera_servicio_h : {Num(2)}]
    \cup [estado : EstadosFalla, fecha_reporte : {F03}, tiempo_fuera_servicio_h : {Num(4)}]
    \cup [estado : EstadosFalla, fecha_reporte : {FMala}, tiempo_fuera_servicio_h : {None}]
    \cup [estado : EstadosFalla, fecha_reporte : {Absent}, tiempo_fuera_servicio_h : {Num(0)}]

OrdenDicts ==
    [tipo : {"Preventivo", "Correctivo"}, estado : {"Completada", "En Proceso"},
     fecha_fin : {None, F05, F06, F06s, FMala}, fecha_programada : {F05},
     costo_real : {None}]
    \cup [tipo : {"Preventivo"}, estado : {"Completada"},
          fecha_fin : {F05}, fecha_programada : {None, Absent, FMala},
          costo_real : {None}]
    \cup [tipo : {"PREVENTIVO", "preventivo"}, estado : {"COMPLETADA"},
          fecha_fin : {F08}, fecha_programada : {F05}, costo_real : {Absent}]
    \cup [tipo : {"Preventivo", "Correctivo"}, estado : {"Completada", "Pendiente"},
          fecha_fin : {F05}, fecha_programada : {F05},
          costo_real : {Num(100), Num(250)}]

\* failure histories passed together with work orders
FallasConOrdenes ==
    {<<>>,
     <<[estado |-> "Resuelta", fecha_reporte |-> F01, tiempo_fuera_servicio_h |-> Num(2)],
       [estado |-> "Cerrada", fecha_reporte |-> F03, tiempo_fuera_servicio_h |-> Num(4)]>>}

KpiArgs ==
    (SeqsUpTo(FallaDicts, MaxFallas) \X {SinOrdenes})
    \cup (FallasConOrdenes \X {Lista(o) : o \in SeqsUpTo(OrdenDicts, MaxOrdenes)})

\* readings of datetime.now()
Relojes == {864000, 864001}

\* failure records of a report, the timestamp, downtime and cost varied
FallaReporteDicts ==
    [estado : {"Resuelta"}, fecha_reporte : {F01, F03, F05},
     tiempo_fuera_servicio_h : {Num(2)}, costo_reparacion : {Num(100)},
     causa_raiz : {Str(<<1>>)}]
    \cup [estado : {"Reportada"}, fecha_reporte : {F01, F03, F05},
          tiempo_fuera_servicio_h : {None}, costo_reparacion : {None},
          causa_raiz : {None}]
    \cup [estado : {"Cerrada"}, fecha_reporte : {F03},
          tiempo_fuera_servicio_h : {Num(4)}, costo_reparacion : {Absent, Num(250)},
          causa_raiz : {Absent}]
    \cup [estado : {"Resuelta"}, fecha_reporte : {Absent, None, FMala},
          tiempo_fuera_servicio_h : {Num(4)}, costo_reparacion : {Num(250)},
          causa_raiz : {Str(<<2>>)}]

\* period bounds: None, 2024-01-01T00:00:00, 2024-01-03T00:00:00
Periodos == {None, Dt(0), Dt(2 * SecondsPerDay)}

\* sequences of root causes, the causes numbered by first appearance
MaxDe(s) == IF s = <<>> THEN 0 ELSE CHOOSE m \in {s[i] : i \in 1..Len(s)} :
                                        \A i \in 1..Len(s) : s[i] <= m
RECURSIVE Crecientes(_)
Crecientes(n) ==
    IF n = 0 THEN {<<>>}
    ELSE UNION {{Append(s, c) : c \in 1..(MaxDe(s) + 1)} : s \in Crecientes(n - 1)}

FallaConCausa(k) ==
    [estado |-> "Resuelta", fecha_reporte |-> F01,
     tiempo_fuera_servicio_h |-> Num(2), costo_reparacion |-> None,
     causa_raiz |-> Str(<<k>>)]

FallasPorCausa ==
    {[i \in 1..Len(s) |-> FallaConCausa(s[i])] :
        s \in UNION {Crecientes(n) : n \in 0..MaxCausas}}

ReporteArgs ==
    (SeqsUpTo(FallaReporteDicts, MaxFallasReporte) \X Periodos \X Periodos)
    \cup (FallasPorCausa \X {None} \X {None})

(***************************************************************************)
(* The calls.                                                              *)
(***************************************************************************)
(***************************************************************************)
(* models/falla.py: class Falla.                                           *)
(***************************************************************************)
REPORTADA == "Reportada"
EN_REVISION == "En Revision"
EN_REPARACION == "En Reparacion"
RESUELTA == "Resuelta"
CERRADA == "Cerrada"
INVALIDA == "Invalida"
EstadoFalla == {REPORTADA, EN_REVISION, EN_REPARACION, RESUELTA, CERRADA, INVALIDA}

\* Falla(...) with the defaults of lines 41-48; acciones_tomadas is the
\* sequence of its lines, "" the empty sequence
FallaNueva ==
    [fecha_reporte |-> F01,
     fecha_cierre |-> None,
     estado |-> REPORTADA,
     causa_raiz |-> None,
     acciones_tomadas |-> <<>>,
     asignado_a |-> None]

\* actualizar_estado that stamps fecha_cierre at every resolution or closure
actualizar_estado_sin_primera(self, nuevo_estado, ahora) ==
    IF nuevo_estado \in {RESUELTA, CERRADA}
    THEN [self EXCEPT !.estado = nuevo_estado, !.fecha_cierre = isoformat(ahora)]
    ELSE [self EXCEPT !.estado = nuevo_estado]

\* actualizar_estado that clears fecha_cierre when the failure is reopened
actualizar_estado_reabre(self, nuevo_estado, ahora) ==
    IF nuevo_estado \in {RESUELTA, CERRADA}
    THEN IF ~Truthy(self.fecha_cierre)
         THEN [self EXCEPT !.estado = nuevo_estado, !.fecha_cierre = isoformat(ahora)]
         ELSE [self EXCEPT !.estado = nuevo_estado]
    ELSE [self EXCEPT !.estado = nuevo_estado, !.fecha_cierre = None]

\* Falla.actualizar_estado, ahora the reading of datetime.now()
actualizar_estado(self, nuevo_estado, ahora) ==
    IF nuevo_estado \in {RESUELTA, CERRADA} /\ ~Truthy(self.fecha_cierre)
    THEN [self EXCEPT !.estado = nuevo_estado, !.fecha_cierre = isoformat(ahora)]
    ELSE [self EXCEPT !.estado = nuevo_estado]

\* asignar_tecnico that sends every failure to review
asignar_tecnico_sin_guarda(self, nombre_tecnico) ==
    [self EXCEPT !.asignado_a = nombre_tecnico, !.estado = EN_REVISION]

\* Falla.asignar_tecnico
asignar_tecnico(self, nombre_tecnico) ==
    IF self.estado = REPORTADA
    THEN [self EXCEPT !.asignado_a = nombre_tecnico, !.estado = EN_REVISION]
    ELSE [self EXCEPT !.asignado_a = nombre_tecnico]

\* Falla.registrar_accion: the action is a new line of acciones_tomadas
registrar_accion(self, accion) ==
    IF self.acciones_tomadas # <<>>
    THEN [self EXCEPT !.acciones_tomadas = self.acciones_tomadas \o <<accion>>]
    ELSE [self EXCEPT !.acciones_tomadas = <<accion>>]

(***************************************************************************)
(* models/orden_trabajo.py: class OrdenTrabajo.                            *)
(***************************************************************************)
PENDIENTE == "Pendiente"
PROGRAMADA == "Programada"
EN_PROCESO == "En Proceso"
PAUSADA == "Pausada"
COMPLETADA == "Completada"
CANCELADA == "Cancelada"
EstadoOrden == {PENDIENTE, PROGRAMADA, EN_PROCESO, PAUSADA, COMPLETADA, CANCELADA}

\* OrdenTrabajo(..., estado=estado) with the other defaults of lines 55-64
\* and materiales = [] (__post_init__)
OrdenNueva(estado) ==
    [tipo |-> "Preventivo",
     fecha_programada |-> F05,
     fecha_inicio |-> None,
     fecha_fin |-> None,
     estado |-> estado,
     horas_reales |-> None,
     materiales |-> <<>>,
     observaciones |-> Str(<<>>),
     costo_estimado |-> None,
     costo_real |-> None]

\* iniciar_trabajo without its guard
iniciar_trabajo_sin_guarda(self, ahora) ==
    IF ~Truthy(self.fecha_inicio)
    THEN [self EXCEPT !.estado = EN_PROCESO, !.fecha_inicio = isoformat(ahora)]
    ELSE [self EXCEPT !.estado = EN_PROCESO]

\* OrdenTrabajo.iniciar_trabajo
iniciar_trabajo(self, ahora) ==
    IF self.estado = PENDIENTE \/ self.estado = PROGRAMADA
    THEN IF ~Truthy(self.fecha_inicio)
         THEN [self EXCEPT !.estado = EN_PROCESO, !.fecha_inicio = isoformat(ahora)]
         ELSE [self EXCEPT !.estado = EN_PROCESO]
    ELSE self

\* pausar_trabajo without its guard
pausar_trabajo_sin_guarda(self) == [self EXCEPT !.estado = PAUSADA]

\* OrdenTrabajo.pausar_trabajo
pausar_trabajo(self) ==
    IF self.estado = EN_PROCESO THEN [self EXCEPT !.estado = PAUSADA] ELSE self

\* OrdenTrabajo.reanudar_trabajo
reanudar_trabajo(self) ==
    IF self.estado = PAUSADA THEN [self EXCEPT !.estado = EN_PROCESO] ELSE self

\* OrdenTrabajo.completar_trabajo: no guard on the status
completar_trabajo(self, observaciones, horas_reales, costo_real, ahora) ==
    [self EXCEPT !.estado = COMPLETADA,
                 !.fecha_fin = isoformat(ahora),
                 !.observaciones = observaciones,
                 !.horas_reales = IF horas_reales.tag # "none"
                                  THEN horas_reales ELSE self.horas_reales,
                 !.costo_real = IF costo_real.tag # "none"
                                THEN costo_real ELSE self.costo_real]

\* agregar_material that overwrites costo_estimado with the last material's cost
agregar_material_sin_acumular(self, nombre, cantidad, unidad, costo_unitario) ==
    LET material == [nombre |-> nombre, cantidad |-> cantidad, unidad |-> unidad,
                     costo_unitario |-> costo_unitario]
        con_material == [self EXCEPT !.materiales = Append(self.materiales, material)]
    IN  IF costo_unitario.tag # "none"
        THEN [con_material EXCEPT
                 !.costo_estimado = Num(cantidad.v[1] * costo_unitario.v[1])]
        ELSE con_material

\* OrdenTrabajo.agregar_material
agregar_material(self, nombre, cantidad, unidad, costo_unitario) ==
    LET material == [nombre |-> nombre, cantidad |-> cantidad, unidad |-> unidad,
                     costo_unitario |-> costo_unitario]
        con_material == [self EXCEPT !.materiales = Append(self.materiales, material)]
        previo == IF self.costo_estimado.tag = "none" THEN 0
                  ELSE self.costo_estimado.v[1]
    IN  IF costo_unitario.tag # "none"
        THEN [con_material EXCEPT
                 !.costo_estimado = Num(previo + cantidad.v[1] * costo_unitario.v[1])]
        ELSE con_material

Llamadores == 1..NumLlamadores
Ociosa == [pc |-> "idle", op |-> "none", periodo_inicio |-> None, ret |-> Ok(<<>>)]

Init ==
    /\ pc = "idle"
    /\ op = "none"
    /\ args = <<>>
    /\ ret = Ok(<<>>)
    /\ snapshot = <<<<>>, SinOrdenes>>
    /\ snapshot0 = snapshot
    /\ llamadas = [c \in Llamadores |-> Ociosa]
    /\ obj_falla = FallaNueva
    /\ ha_sido = {FallaNueva.estado}
    /\ obj_orden = OrdenNueva(PENDIENTE)
    /\ reloj = 0

CallMtbf ==
    /\ pc = "idle"
    /\ \E fechas \in SeqsUpTo(Instantes, MaxFechas) :
        /\ args' = <<fechas>>
        /\ ret' = calcular_mtbf(fechas)
    /\ op' = "calcular_mtbf"
    /\ pc' = "done"
    /\ UNCHANGED <<compartidas, registros>>

CallMttr ==
    /\ pc = "idle"
    /\ \E tiempos \in SeqsUpTo(Duraciones, MaxTiempos) :
        /\ args' = <<tiempos>>
        /\ ret' = calcular_mttr(tiempos)
    /\ op' = "calcular_mttr"
    /\ pc' = "done"
    /\ UNCHANGED <<compartidas, registros>>

CallDisponibilidad ==
    /\ pc = "idle"
    /\ \E mtbf \in Medias(-2, MaxMtbf), mttr \in Medias(-MaxMttr, MaxMttr) :
        /\ args' = <<mtbf, mttr>>
        /\ ret' = calcular_disponibilidad(mtbf, mttr)
    /\ op' = "calcular_disponibilidad"
    /\ pc' = "done"
    /\ UNCHANGED <<compartidas, registros>>

CallKpis ==
    /\ pc = "idle"
    /\ \E a \in KpiArgs, ahora \in Relojes :
        /\ args' = <<a[1], a[2], ahora>>
        /\ ret' = calcular_kpis_activo(a[1], a[2], ahora)
    /\ op' = "calcular_kpis_activo"
    /\ pc' = "done"
    /\ UNCHANGED <<compartidas, registros>>

CallReporte ==
    /\ pc = "idle"
    /\ \E a \in ReporteArgs :
        /\ args' = a
        /\ ret' = generar_reporte_estadistico(a[1], a[2], a[3])
    /\ op' = "generar_reporte_estadistico"
    /\ pc' = "done"
    /\ UNCHANGED <<compartidas, registros>>

Volver ==
    /\ pc = "done"
    /\ pc' = "idle"
    /\ op' = "none"
    /\ args' = <<>>
    /\ ret' = Ok(<<>>)
    /\ UNCHANGED <<compartidas, registros>>

NextMtbf == CallMtbf \/ Volver
SpecMtbf == Init /\ [][NextMtbf]_vars

NextMttr == CallMttr \/ Volver
SpecMttr == Init /\ [][NextMttr]_vars

NextDisponibilidad == CallDisponibilidad \/ Volver
SpecDisponibilidad == Init /\ [][NextDisponibilidad]_vars

NextKpis == CallKpis \/ Volver
SpecKpis == Init /\ [][NextKpis]_vars

NextReporte == CallReporte \/ Volver
SpecReporte == Init /\ [][NextReporte]_vars

(***************************************************************************)
(* Callers sharing one snapshot.  KPICalculator has no attribute and its   *)
(* methods assign to no element of their arguments, so a call leaves the   *)
(* shared lists as they are.                                               *)
(***************************************************************************)
FallaSnapshotDicts ==
    {[estado |-> "Resuelta", fecha_reporte |-> F01, tiempo_fuera_servicio_h |-> Num(2),
      costo_reparacion |-> Num(100), causa_raiz |-> Str(<<1>>)],
     [estado |-> "Reportada", fecha_reporte |-> F03, tiempo_fuera_servicio_h |-> None,
      costo_reparacion |-> None, causa_raiz |-> None],
     [estado |-> "Cerrada", fecha_reporte |-> F05, tiempo_fuera_servicio_h |-> Num(4),
      costo_reparacion |-> Absent, causa_raiz |-> Str(<<2>>)],
     [estado |-> "Resuelta", fecha_reporte |-> FMala, tiempo_fuera_servicio_h |-> Num(4),
      costo_reparacion |-> Num(250), causa_raiz |-> Str(<<2>>)]}

OrdenesSnapshot ==
    {SinOrdenes,
     Lista(<<[tipo |-> "Preventivo", estado |-> "Completada", fecha_fin |-> F06,
              fecha_programada |-> F05, costo_real |-> Num(100)]>>)}

Instantaneas == SeqsUpTo(FallaSnapshotDicts, MaxSnapshot) \X OrdenesSnapshot

\* the shared lists after calcular_kpis_activo filtered them in place
\* (fallas[:] = fallas_resueltas) instead of building a new list
entrada_tras_llamada_filtrada(snap, operacion) ==
    IF operacion = "calcular_kpis_activo"
    THEN <<fallas_resueltas(snap[1]), snap[2]>>
    ELSE snap

\* the shared lists after a call: neither method writes to its arguments
entrada_tras_llamada(snap, operacion) == snap

InitConcurrente ==
    /\ pc = "idle"
    /\ op = "none"
    /\ args = <<>>
    /\ ret = Ok(<<>>)
    /\ snapshot \in Instantaneas
    /\ snapshot0 = snapshot
    /\ llamadas = [c \in Llamadores |-> Ociosa]
    /\ obj_falla = FallaNueva
    /\ ha_sido = {FallaNueva.estado}
    /\ obj_orden = OrdenNueva(PENDIENTE)
    /\ reloj = 0

Empezar(c) ==
    /\ llamadas[c].pc = "idle"
    /\ \/ llamadas' = [llamadas EXCEPT ![c] =
                          [pc |-> "running", op |-> "calcular_kpis_activo",
                           periodo_inicio |-> None, ret |-> Ok(<<>>)]]
       \/ \E inicio \in {None, Dt(2 * SecondsPerDay)} :
              llamadas' = [llamadas EXCEPT ![c] =
                              [pc |-> "running", op |-> "generar_reporte_estadistico",
                               periodo_inicio |-> inicio, ret |-> Ok(<<>>)]]
    /\ UNCHANGED <<pc, op, args, ret, snapshot, snapshot0, registros>>

Terminar(c) ==
    /\ llamadas[c].pc = "running"
    /\ \/ /\ llamadas[c].op = "calcular_kpis_activo"
          /\ \E ahora \in Relojes :
                 llamadas' = [llamadas EXCEPT ![c].pc = "done",
                                  ![c].ret = calcular_kpis_activo(snapshot[1],
                                                                  snapshot[2], ahora)]
       \/ /\ llamadas[c].op = "generar_reporte_estadistico"
          /\ llamadas' = [llamadas EXCEPT ![c].pc = "done",
                              ![c].ret = generar_reporte_estadistico(
                                             snapshot[1], llamadas[c].periodo_inicio, None)]
    /\ snapshot' = entrada_tras_llamada(snapshot, llamadas[c].op)
    /\ UNCHANGED <<pc, op, args, ret, snapshot0, registros>>

Repetir(c) ==
    /\ llamadas[c].pc = "done"
    /\ llamadas' = [llamadas EXCEPT ![c] = Ociosa]
    /\ UNCHANGED <<pc, op, args, ret, snapshot, snapshot0, registros>>

NextConcurrente == \E c \in Llamadores : Empezar(c) \/ Terminar(c) \/ Repetir(c)
SpecConcurrente == InitConcurrente /\ [][NextConcurrente]_vars

(***************************************************************************)
(* Calls of the methods of a Falla and of an OrdenTrabajo.  Time passes    *)
(* between calls (Tic); a call reads the clock once.                       *)
(***************************************************************************)
Tecnicos == {Str(<<1>>), Str(<<2>>)}
Acciones == {1}
\* <<observaciones, horas_reales, costo_real>>
CompletarArgs ==
    {<<Str(<<>>), None, None>>,
     <<Str(<<1>>), Num(2), Num(100)>>,
     <<Str(<<1>>), None, Num(250)>>}
\* <<nombre, cantidad, unidad, costo_unitario>>
MaterialArgs ==
    {<<Str(<<1>>), Num(2), Str(<<1>>), Num(3)>>,
     <<Str(<<2>>), Num(1), Str(<<1>>), None>>,
     <<Str(<<3>>), Num(1), Str(<<1>>), Num(0)>>}

Tic ==
    /\ reloj < MaxReloj
    /\ reloj' = reloj + 1
    /\ op' = "now"
    /\ args' = <<>>
    /\ UNCHANGED <<pc, ret, compartidas, obj_falla, ha_sido, obj_orden>>

ActualizarEstado ==
    \E nuevo_estado \in EstadoFalla :
        /\ obj_falla' = actualizar_estado(obj_falla, nuevo_estado, reloj)
        /\ ha_sido' = ha_sido \cup {obj_falla'.estado}
        /\ op' = "actualizar_estado"
        /\ args' = <<nuevo_estado>>
        /\ UNCHANGED <<pc, ret, compartidas, obj_orden, reloj>>

AsignarTecnico ==
    \E nombre_tecnico \in Tecnicos :
        /\ obj_falla' = asignar_tecnico(obj_falla, nombre_tecnico)
        /\ ha_sido' = ha_sido \cup {obj_falla'.estado}
        /\ op' = "asignar_tecnico"
        /\ args' = <<nombre_tecnico>>
        /\ UNCHANGED <<pc, ret, compartidas, obj_orden, reloj>>

RegistrarAccion ==
    \E accion \in Acciones :
        /\ Len(obj_falla.acciones_tomadas) < MaxAcciones
        /\ obj_falla' = registrar_accion(obj_falla, accion)
        /\ ha_sido' = ha_sido \cup {obj_falla'.estado}
        /\ op' = "registrar_accion"
        /\ args' = <<accion>>
        /\ UNCHANGED <<pc, ret, compartidas, obj_orden, reloj>>

NextFalla == Tic \/ ActualizarEstado \/ AsignarTecnico \/ RegistrarAccion
SpecFalla == Init /\ [][NextFalla]_vars

\* an order as the constructor or from_dict gives it, in any status
InitOrden ==
    /\ pc = "idle"
    /\ op = "none"
    /\ args = <<>>
    /\ ret = Ok(<<>>)
    /\ snapshot = <<<<>>, SinOrdenes>>
    /\ snapshot0 = snapshot
    /\ llamadas = [c \in Llamadores |-> Ociosa]
    /\ obj_falla = FallaNueva
    /\ ha_sido = {FallaNueva.estado}
    /\ \E estado \in EstadoOrden : obj_orden = OrdenNueva(estado)
    /\ reloj = 0

IniciarTrabajo ==
    /\ obj_orden' = iniciar_trabajo(obj_orden, reloj)
    /\ op' = "iniciar_trabajo"
    /\ args' = <<>>
    /\ UNCHANGED <<pc, ret, compartidas, obj_falla, ha_sido, reloj>>

PausarTrabajo ==
    /\ obj_orden' = pausar_trabajo(obj_orden)
    /\ op' = "pausar_trabajo"
    /\ args' = <<>>
    /\ UNCHANGED <<pc, ret, compartidas, obj_falla, ha_sido, reloj>>

ReanudarTrabajo ==
    /\ obj_orden' = reanudar_trabajo(obj_orden)
    /\ op' = "reanudar_trabajo"
    /\ args' = <<>>
    /\ UNCHANGED <<pc, ret, compartidas, obj_falla, ha_sido, reloj>>

CompletarTrabajo ==
    \E a \in CompletarArgs :
        /\ obj_orden' = completar_trabajo(obj_orden, a[1], a[2], a[3], reloj)
        /\ op' = "completar_trabajo"
        /\ args' = a
        /\ UNCHANGED <<pc, ret, compartidas, obj_falla, ha_sido, reloj>>

AgregarMaterial ==
    \E a \in MaterialArgs :
        /\ Len(obj_orden.materiales) < MaxMateriales
        /\ obj_orden' = agregar_material(obj_orden, a[1], a[2], a[3], a[4])
        /\ op' = "agregar_material"
        /\ args' = a
        /\ UNCHANGED <<pc, ret, compartidas, obj_falla, ha_sido, reloj>>

NextOrden ==
    \/ Tic
    \/ IniciarTrabajo
    \/ PausarTrabajo
    \/ ReanudarTrabajo
    \/ CompletarTrabajo
    \/ AgregarMaterial
SpecOrden == InitOrden /\ [][NextOrden]_vars

Next ==
    \/ CallMtbf \/ CallMttr \/ CallDisponibilidad \/ CallKpis \/ CallReporte \/ Volver
    \/ NextConcurrente
    \/ NextFalla
    \/ NextOrden
Spec == Init /\ [][Next]_vars

(***************************************************************************)
(* Properties of calcular_mtbf.                                            *)
(***************************************************************************)
Range(s) == {s[i] : i \in 1..Len(s)}
MaxOf(S) == CHOOSE x \in S : \A y \in S : y <= x
MinOf(S) == CHOOSE x \in S : \A y \in S : x <= y
Reorderings(n) == {p \in [1..n -> 1..n] : \A i, j \in 1..n : p[i] = p[j] => i = j}
Permuted(s, p) == [i \in 1..Len(s) |-> s[p[i]]]
MtbfDone == pc = "done" /\ op = "calcular_mtbf"

\* C4: for at least 2 timestamps calcular_mtbf returns the mean of the gaps
\* between chronologically consecutive timestamps and the interval count
\* len - 1, duplicates counted.  The gaps between consecutive timestamps in
\* chronological order add up to latest - earliest, so the mean of the
\* len - 1 gaps is (latest - earliest) / 3600 / (len - 1) hours.
C4_MtbfMeanOfGaps ==
    (MtbfDone /\ Len(args[1]) >= 2) =>
        LET f == args[1]
            n == Len(f) - 1
        IN  /\ Returned(ret)
            /\ ret.val[2] = n
            /\ ret.val[1] = Rat(MaxOf(Range(f)) - MinOf(Range(f)), SecondsPerHour * n)

\* C4 witness: an unordered input with a duplicate timestamp has been averaged.
C4_Witness ==
    /\ MtbfDone
    /\ args[1] = <<86400, 0, 86400, 1800>>
    /\ ret = Ok(<<FromInt(8), 3>>)

\* C5: for fewer than 2 timestamps calcular_mtbf returns (0.0, 0).
C5_MtbfFewerThanTwo ==
    (MtbfDone /\ Len(args[1]) < 2) => ret = Ok(<<Zero, 0>>)

\* C5 witness: a call with a single timestamp has returned.
C5_Witness ==
    /\ MtbfDone
    /\ Len(args[1]) = 1
    /\ Returned(ret)

\* C6: calcular_mtbf returns the same MTBF and the same interval count for
\* every reordering of its input.
C6_MtbfPermutationInvariant ==
    MtbfDone =>
        \A p \in Reorderings(Len(args[1])) :
            calcular_mtbf(Permuted(args[1], p)) = ret

\* C6 witness: a call on a sequence that is not in chronological order, with
\* a positive MTBF.
C6_Witness ==
    /\ MtbfDone
    /\ args[1] = <<90000, 0, 1800>>
    /\ ret = Ok(<<Rat(25, 2), 2>>)

(***************************************************************************)
(* Properties of calcular_mttr.                                            *)
(***************************************************************************)
RECURSIVE DenProd(_)
DenProd(s) == IF s = <<>> THEN 1 ELSE Head(s)[2] * DenProd(Tail(s))

RECURSIVE NumSum(_, _)
NumSum(s, D) ==
    IF s = <<>> THEN 0 ELSE Head(s)[1] * (D \div Head(s)[2]) + NumSum(Tail(s), D)

MttrDone == pc = "done" /\ op = "calcular_mttr"

\* C7: calcular_mttr returns sum(durations) / count(durations) for every
\* non-empty sequence, every element counted (zeros too), and 0.0 for the
\* empty sequence.
C7_MttrIsMean ==
    MttrDone =>
        LET t == args[1]
            D == DenProd(t)
        IN  IF Len(t) = 0 THEN ret = Ok(Zero)
            ELSE ret = Ok(Rat(NumSum(t, D), D * Len(t)))

\* C7 witness: a sequence holding a zero duration has been averaged, the zero
\* counted in the denominator.
C7_Witness ==
    /\ MttrDone
    /\ args[1] = <<FromInt(4), Zero, FromInt(2)>>
    /\ ret = Ok(FromInt(2))

(***************************************************************************)
(* Properties of calcular_disponibilidad.                                  *)
(***************************************************************************)
RMul(x, y) == Rat(x[1] * y[1], x[2] * y[2])
DispDone == pc = "done" /\ op = "calcular_disponibilidad"

\* C8: calcular_disponibilidad(mtbf, mttr) returns 0.0 whenever mtbf <= 0 and
\* mtbf / (mtbf + mttr) otherwise; for a non-negative mttr the call divides by
\* no zero and its result lies in [0, 1].
C8_Disponibilidad ==
    DispDone =>
        LET mtbf == args[1]
            mttr == args[2]
        IN  /\ RLe(mtbf, Zero) => ret = Ok(Zero)
            /\ (RLt(Zero, mtbf) /\ ~RIsZero(RAdd(mtbf, mttr))) =>
                   /\ Returned(ret)
                   /\ RMul(ret.val, RAdd(mtbf, mttr)) = mtbf
            /\ RLe(Zero, mttr) =>
                   /\ Returned(ret)
                   /\ RLe(Zero, ret.val)
                   /\ RLe(ret.val, One)

\* C8 witness: a call with positive mtbf and positive mttr returned a value
\* strictly between 0 and 1.
C8_Witness ==
    /\ DispDone
    /\ args = <<FromInt(3), FromInt(1)>>
    /\ ret = Ok(<<3, 4>>)

\* C9: for mtbf > 0 and mttr >= 0, calcular_disponibilidad does not decrease
\* when mtbf grows (mttr fixed) and does not increase when mttr grows (mtbf
\* fixed).
C9_DisponibilidadMonotone ==
    (DispDone /\ RLt(Zero, args[1]) /\ RLe(Zero, args[2])) =>
        /\ Returned(ret)
        /\ \A m2 \in Medias(1, MaxMtbf) :
               RLe(args[1], m2) =>
                   LET r2 == calcular_disponibilidad(m2, args[2])
                   IN  Returned(r2) /\ RLe(ret.val, r2.val)
        /\ \A t2 \in Medias(0, MaxMttr) :
               RLe(args[2], t2) =>
                   LET r2 == calcular_disponibilidad(args[1], t2)
                   IN  Returned(r2) /\ RLe(r2.val, ret.val)

\* C9 witness: a call in the interior of the domain, with larger mtbf and
\* larger mttr values left to compare against.
C9_Witness ==
    /\ DispDone
    /\ args = <<FromInt(2), <<1, 2>>>>
    /\ ret = Ok(<<4, 5>>)

(***************************************************************************)
(* Properties of calcular_kpis_activo.                                     *)
(***************************************************************************)
KpisDone == pc = "done" /\ op = "calcular_kpis_activo"

Count(s, P(_)) == Cardinality({i \in 1..Len(s) : P(s[i])})

EsResueltaOCerrada(f) == f.estado \in {"Resuelta", "Cerrada"}

\* C1: only failures whose status is Resuelta or Cerrada count: num_fallas is
\* their number, and mtbf_horas, mttr_horas and num_intervalos_mtbf are what
\* the call returns with every failure in another status taken out.
C1_OnlyResolvedOrClosedCount ==
    (KpisDone /\ Returned(ret)) =>
        LET solo == calcular_kpis_activo(SelectSeq(args[1], EsResueltaOCerrada),
                                         args[2], args[3])
        IN  /\ ret.val.num_fallas = Count(args[1], EsResueltaOCerrada)
            /\ Returned(solo)
            /\ ret.val.mtbf_horas = solo.val.mtbf_horas
            /\ ret.val.mttr_horas = solo.val.mttr_horas
            /\ ret.val.num_intervalos_mtbf = solo.val.num_intervalos_mtbf

FechaIlegible(x) == x.tag = "str" /\ ~Returned(fromisoformat(x))
FallaMalformada(f) == EsResueltaOCerrada(f) /\ FechaIlegible(f.fecha_reporte)
OrdenMalformada(ot) ==
    /\ ot.tipo \in TiposPreventivo
    /\ FechaIlegible(ot.fecha_fin) \/ FechaIlegible(ot.fecha_programada)

SinFechaIlegible(fallas) ==
    [i \in 1..Len(fallas) |->
        IF FallaMalformada(fallas[i])
        THEN [fallas[i] EXCEPT !.fecha_reporte = Absent]
        ELSE fallas[i]]

\* C2: one malformed record never makes calcular_kpis_activo fail: with a
\* single resolved failure whose report timestamp is unparseable, or a single
\* preventive work order whose finish or scheduled date is unparseable, the
\* call returns a result, and the MTBF is the one of the remaining timestamps.
C2_OneBadRecordNeverFails ==
    (/\ KpisDone
     /\ Count(args[1], FallaMalformada) + Count(args[2].v, OrdenMalformada) = 1) =>
        /\ Returned(ret)
        /\ LET resto == calcular_kpis_activo(SinFechaIlegible(args[1]),
                                             SinOrdenes, args[3])
           IN  /\ Returned(resto)
               /\ ret.val.mtbf_horas = resto.val.mtbf_horas
               /\ ret.val.num_intervalos_mtbf = resto.val.num_intervalos_mtbf

\* C3: the returned disponibilidad is calcular_disponibilidad(mtbf, mttr)
\* when the computed MTBF is > 0 and exactly 1.0 otherwise, whatever the MTTR.
C3_DisponibilidadConvention ==
    (KpisDone /\ Returned(ret)) =>
        LET r == ret.val
        IN  IF RLt(Zero, r.mtbf_horas)
            THEN calcular_disponibilidad(r.mtbf_horas, r.mttr_horas)
                     = Ok(r.disponibilidad)
            ELSE r.disponibilidad = One

\* C3 witness: two resolved failures at the same instant: one interval, an
\* MTBF of 0, a positive MTTR, and a disponibilidad of 1.0.
C3_Witness ==
    /\ KpisDone
    /\ Returned(ret)
    /\ Len(args[1]) = 2
    /\ ret.val.num_intervalos_mtbf = 1
    /\ ret.val.mtbf_horas = Zero
    /\ ret.val.mttr_horas = FromInt(2)
    /\ ret.val.disponibilidad = One

EsPreventivo(ot) == ot.tipo \in TiposPreventivo
Presente(x) == x.tag = "str"
EnPlazo(ot) ==
    /\ ot.estado \in EstadosCompletada
    /\ Presente(ot.fecha_fin)
    /\ Presente(ot.fecha_programada)
    /\ fromisoformat(ot.fecha_fin).val
           <= fromisoformat(ot.fecha_programada).val + SecondsPerDay
FechasLegibles(fallas, ordenes) ==
    /\ \A i \in 1..Len(fallas) :
           fallas[i].fecha_reporte.tag # "absent" =>
               Returned(fromisoformat(fallas[i].fecha_reporte))
    /\ \A i \in 1..Len(ordenes) :
           /\ ~FechaIlegible(ordenes[i].fecha_fin)
           /\ ~FechaIlegible(ordenes[i].fecha_programada)

\* C10: a preventive work order is on time exactly when its status is
\* Completed, fecha_fin and fecha_programada are both present and
\* fecha_fin <= fecha_programada + 1 day; with at least one preventive order,
\* cumplimiento_preventivo is (on-time count / preventive count) * 100 and
\* lies in [0, 100].  Stated for inputs whose timestamps all parse.
C10_CumplimientoPreventivo ==
    (/\ KpisDone
     /\ FechasLegibles(args[1], args[2].v)
     /\ Count(args[2].v, EsPreventivo) > 0) =>
        /\ Returned(ret)
        /\ LET c == ret.val.cumplimiento_preventivo
               enPlazo == Count(args[2].v, LAMBDA ot : EsPreventivo(ot) /\ EnPlazo(ot))
           IN  /\ c.tag = "num"
               /\ c.v = Rat(enPlazo * 100, Count(args[2].v, EsPreventivo))
               /\ RLe(Zero, c.v)
               /\ RLe(c.v, FromInt(100))

\* C10 witness: two completed preventive orders scheduled for the 5th, one
\* finished exactly one day later (on time), one a second after that (late):
\* a compliance of 50.
C10_Witness ==
    /\ KpisDone
    /\ Returned(ret)
    /\ Len(args[2].v) = 2
    /\ args[2].v[1].tipo = "Preventivo" /\ args[2].v[1].estado = "Completada"
    /\ args[2].v[1].fecha_fin = F06 /\ args[2].v[1].fecha_programada = F05
    /\ args[2].v[2].tipo = "Preventivo" /\ args[2].v[2].estado = "Completada"
    /\ args[2].v[2].fecha_fin = F06s /\ args[2].v[2].fecha_programada = F05
    /\ ret.val.cumplimiento_preventivo = [tag |-> "num", v |-> FromInt(50)]

\* C11: cumplimiento_preventivo is absent (None), never 0, whenever the input
\* holds no preventive work order (work orders not supplied, empty, or all of
\* other types); it is the number 0.0 only when at least one preventive order
\* exists and none of them is on time.
C11_CumplimientoAbsentNotZero ==
    (KpisDone /\ Returned(ret)) =>
        LET c == ret.val.cumplimiento_preventivo
        IN  /\ Count(args[2].v, EsPreventivo) = 0 => c.tag = "none"
            /\ Count(args[2].v, EsPreventivo) > 0 => c.tag = "num"
            /\ (c.tag = "num" /\ c.v = Zero) =>
                   /\ Count(args[2].v, EsPreventivo) > 0
                   /\ Count(args[2].v, LAMBDA ot : EsPreventivo(ot) /\ EnPlazo(ot)) = 0

\* C11 witness: work orders were supplied, none of them preventive, and the
\* compliance came back absent.
C11_Witness ==
    /\ KpisDone
    /\ Returned(ret)
    /\ Len(args[2].v) = 2
    /\ Count(args[2].v, EsPreventivo) = 0
    /\ ret.val.cumplimiento_preventivo.tag = "none"

RECURSIVE CostoPresente(_, _)
CostoPresente(ordenes, i) ==
    IF i = 0 THEN 0
    ELSE CostoPresente(ordenes, i - 1)
         + (IF ordenes[i].costo_real.tag = "num" THEN ordenes[i].costo_real.v[1] ELSE 0)

\* C12: costo_total_mantenimiento is the sum of costo_real over all supplied
\* work orders, of every type and status, whose costo_real is present; it is
\* 0.0 when the work orders are not supplied or the list is empty.
C12_CostoTotal ==
    (KpisDone /\ Returned(ret)) =>
        ret.val.costo_total_mantenimiento
            = FromInt(CostoPresente(args[2].v, Len(args[2].v)))

\* C12 witness: a costed corrective order that is not completed and an order
\* without a cost: the total is the one cost.
C12_Witness ==
    /\ KpisDone
    /\ Returned(ret)
    /\ Len(args[2].v) = 2
    /\ args[2].v[1].tipo = "Correctivo" /\ args[2].v[1].estado = "Pendiente"
    /\ args[2].v[1].costo_real = Num(250)
    /\ args[2].v[2].costo_real = None
    /\ ret.val.costo_total_mantenimiento = FromInt(250)

\* C13: with an empty failures list and no work orders the call returns
\* mtbf_horas = 0.0, mttr_horas = 0.0, disponibilidad = 1.0, num_fallas = 0,
\* num_intervalos_mtbf = 0, cumplimiento_preventivo absent and
\* costo_total_mantenimiento = 0.0.
C13_EmptyInput ==
    (KpisDone /\ args[1] = <<>> /\ args[2].tag = "none") =>
        /\ Returned(ret)
        /\ ret.val.mtbf_horas = Zero
        /\ ret.val.mttr_horas = Zero
        /\ ret.val.disponibilidad = One
        /\ ret.val.num_fallas = 0
        /\ ret.val.num_intervalos_mtbf = 0
        /\ ret.val.cumplimiento_preventivo.tag = "none"
        /\ ret.val.costo_total_mantenimiento = Zero

\* C13 witness: the call with no failures and no work orders has returned.
C13_Witness ==
    /\ KpisDone
    /\ args[1] = <<>>
    /\ args[2].tag = "none"
    /\ Returned(ret)

(***************************************************************************)
(* Properties of generar_reporte_estadistico.                              *)
(***************************************************************************)
ReporteDone == pc = "done" /\ op = "generar_reporte_estadistico"
Acotado == args[2].tag = "dt" \/ args[3].tag = "dt"

FechaLegible(f) ==
    f.fecha_reporte.tag = "str" /\ Returned(fromisoformat(f.fecha_reporte))
Instante(f) == fromisoformat(f.fecha_reporte).val

\* period_start <= t (if start given) and t <= period_end (if end given)
DentroDeLimites(f) ==
    /\ FechaLegible(f)
    /\ args[2].tag = "dt" => args[2].v[1] <= Instante(f)
    /\ args[3].tag = "dt" => Instante(f) <= args[3].v[1]

FueraDeLimites(f) == FechaLegible(f) /\ ~DentroDeLimites(f)

\* the filtered input of the call in args
Filtradas == IF Acotado THEN SelectSeq(args[1], DentroDeLimites) ELSE args[1]

RECURSIVE SumaCampo(_, _, _)
SumaCampo(s, campo, i) ==
    IF i = 0 THEN 0
    ELSE SumaCampo(s, campo, i - 1)
         + (IF s[i][campo].tag = "num" THEN s[i][campo].v[1] ELSE 0)

ConCampo(s, campo) == Cardinality({i \in 1..Len(s) : s[i][campo].tag = "num"})

\* C14: the call returns an empty result, not an error, when the failures
\* list is empty, and when a period bound is given and every record falls
\* outside the bounds.
C14_EmptyResult ==
    (/\ ReporteDone
     /\ \/ Len(args[1]) = 0
        \/ Acotado /\ \A i \in 1..Len(args[1]) : FueraDeLimites(args[1][i])) =>
        Returned(ret) /\ EsVacio(ret.val)

\* C14 witness: a bounded query over two records, both outside the bounds,
\* has returned.
C14_Witness ==
    /\ ReporteDone
    /\ Acotado
    /\ Len(args[1]) = 2
    /\ \A i \in 1..2 : FueraDeLimites(args[1][i])
    /\ Returned(ret)

\* C15: a bounded query keeps exactly the failures whose report timestamp t
\* has period_start <= t (if given) and t <= period_end (if given), both
\* bounds inclusive, a missing bound leaving its side open.
C15_InclusiveBounds ==
    (ReporteDone /\ Acotado) =>
        LET kept == SelectSeq(args[1], DentroDeLimites)
        IN  /\ Returned(ret)
            /\ IF Len(kept) = 0 THEN EsVacio(ret.val)
               ELSE /\ ~EsVacio(ret.val)
                    /\ ret.val.total_fallas = Len(kept)
                    /\ ret.val.tiempo_total_fuera_servicio
                           = FromInt(SumaCampo(kept, "tiempo_fuera_servicio_h", Len(kept)))
                    /\ ret.val.distribucion_por_estado
                           = distribucion_por_estado(kept)

\* C15 witness: bounds 01-01 and 01-03, records stamped exactly at the start,
\* exactly at the end and after the end: the first two are kept.
C15_Witness ==
    /\ ReporteDone
    /\ args[2] = Dt(0) /\ args[3] = Dt(2 * SecondsPerDay)
    /\ Len(args[1]) = 3
    /\ args[1][1].fecha_reporte = F01
    /\ args[1][2].fecha_reporte = F03
    /\ args[1][3].fecha_reporte = F05
    /\ Returned(ret)
    /\ ret.val.total_fallas = 2

\* C16: in a bounded query a record whose report timestamp is missing or
\* unparseable is dropped silently: the call does not raise and reports what
\* it reports for the input without those records.
C16_BadTimestampDropped ==
    (ReporteDone /\ Acotado) =>
        /\ Returned(ret)
        /\ ret = generar_reporte_estadistico(SelectSeq(args[1], FechaLegible),
                                             args[2], args[3])

\* C16 witness: a bounded query over a record with an unparseable timestamp
\* and a well-formed record inside the bounds reported one failure.
C16_Witness ==
    /\ ReporteDone
    /\ Acotado
    /\ Len(args[1]) = 2
    /\ args[1][1].fecha_reporte = FMala
    /\ DentroDeLimites(args[1][2])
    /\ Returned(ret)
    /\ ret.val.total_fallas = 1

\* the buckets of the filtered input, causas the cause of each record in turn
CausasDe(F) == [i \in 1..Len(F) |-> causa_de(F[i])]
Claves(causas) == {causas[i] : i \in 1..Len(causas)}
Veces(causas, k) == Cardinality({i \in 1..Len(causas) : causas[i] = k})
Primera(causas, k) == CHOOSE i \in 1..Len(causas) :
                          /\ causas[i] = k
                          /\ \A j \in 1..(i - 1) : causas[j] # k
\* k1 is more frequent than k2, or as frequent and first met earlier
Antes(causas, k1, k2) ==
    \/ Veces(causas, k1) > Veces(causas, k2)
    \/ Veces(causas, k1) = Veces(causas, k2) /\ Primera(causas, k1) < Primera(causas, k2)

\* C17: the causas_raiz table never has more than 5 entries, holds the most
\* frequent root causes in descending count, and among causes of equal count
\* prefers the one first met in the filtered input.
C17_TopFiveCauses ==
    (ReporteDone /\ Returned(ret) /\ ~EsVacio(ret.val)) =>
        LET T == ret.val.causas_raiz
            causas == CausasDe(Filtradas)
            K == Claves(causas)
            fuera == {k \in K : \A i \in 1..Len(T) : T[i][1] # k}
        IN  /\ Len(T) <= TopN
            /\ Len(T) = IF Cardinality(K) < TopN THEN Cardinality(K) ELSE TopN
            /\ \A i \in 1..Len(T) : T[i][1] \in K /\ T[i][2] = Veces(causas, T[i][1])
            /\ \A i \in 1..(Len(T) - 1) : Antes(causas, T[i][1], T[i + 1][1])
            /\ \A k \in fuera : Len(T) > 0 /\ Antes(causas, T[Len(T)][1], k)

\* C17 witness: six causes met once each: the table holds the first five, the
\* sixth lost the tie at the fifth place.
C17_Witness ==
    /\ ReporteDone
    /\ Len(args[1]) = 6
    /\ \A i \in 1..6 : args[1][i].causa_raiz = Str(<<i>>)
    /\ Returned(ret)
    /\ ret.val.causas_raiz = [i \in 1..5 |-> <<Str(<<i>>), 1>>]

SinCausa(f) == f.causa_raiz.tag \in {"absent", "none"}

\* C18: every failure with no root cause, the causa_raiz key missing or there
\* with value None, is counted under the one bucket 'No especificada'.
C18_NoCauseUnderSentinel ==
    (ReporteDone /\ Returned(ret) /\ ~EsVacio(ret.val)) =>
        LET T == ret.val.causas_raiz
            n == Cardinality({i \in 1..Len(Filtradas) : SinCausa(Filtradas[i])})
        IN  /\ \A i \in 1..Len(T) : T[i][1].tag = "str"
            /\ n > 0 =>
                   \/ \E i \in 1..Len(T) : T[i] = <<NoEspecificada, n>>
                   \/ Len(T) = TopN /\ \A i \in 1..Len(T) : T[i][2] >= n

\* C19: for a non-empty filtered set, total_fallas is the number of filtered
\* records, tiempo_total_fuera_servicio the sum of the present downtime
\* values, tiempo_promedio_reparacion their mean over the present values only
\* (0 if none), and costo_total_reparaciones the sum of the present repair
\* costs (0 if none).
C19_Aggregates ==
    (ReporteDone /\ Len(Filtradas) > 0) =>
        LET F == Filtradas
            t == SumaCampo(F, "tiempo_fuera_servicio_h", Len(F))
            nt == ConCampo(F, "tiempo_fuera_servicio_h")
        IN  /\ Returned(ret)
            /\ ~EsVacio(ret.val)
            /\ ret.val.total_fallas = Len(F)
            /\ ret.val.tiempo_total_fuera_servicio = FromInt(t)
            /\ ret.val.tiempo_promedio_reparacion = IF nt = 0 THEN Zero ELSE Rat(t, nt)
            /\ ret.val.costo_total_reparaciones
                   = FromInt(SumaCampo(F, "costo_reparacion", Len(F)))

\* C19 witness: three records, downtimes 2, absent and 4: total 6, mean 3
\* over the two present values.
C19_Witness ==
    /\ ReporteDone
    /\ ~Acotado
    /\ Len(args[1]) = 3
    /\ args[1][1].tiempo_fuera_servicio_h = Num(2)
    /\ args[1][2].tiempo_fuera_servicio_h = None
    /\ args[1][3].tiempo_fuera_servicio_h = Num(4)
    /\ Returned(ret)
    /\ ret.val.tiempo_total_fuera_servicio = FromInt(6)
    /\ ret.val.tiempo_promedio_reparacion = FromInt(3)

(***************************************************************************)
(* Callers sharing one snapshot.                                           *)
(***************************************************************************)
\* an outcome without its computation timestamp
SinReloj(r) ==
    IF Returned(r) /\ "ultima_actualizacion" \in DOMAIN r.val
    THEN Ok([r.val EXCEPT !.ultima_actualizacion = 0])
    ELSE r

Terminada(c) == llamadas[c].pc = "done"

Establecida(x) == x.tag # "none"
EstadosDeCierre == {RESUELTA, CERRADA}

\* C21: for a Falla created with the defaults, after any sequence of
\* actualizar_estado, asignar_tecnico and registrar_accion calls fecha_cierre
\* is set if and only if the status has been Resuelta or Cerrada at least
\* once; the statuses had are never forgotten, so once set it stays set.
C21_FechaCierreIffTerminalReached ==
    Establecida(obj_falla.fecha_cierre) <=> (ha_sido \cap EstadosDeCierre # {})

\* C21 witness: a failure that was resolved and then moved back to Reportada
\* has been assigned a technician and still carries its fecha_cierre.
C21_Witness ==
    /\ op = "asignar_tecnico"
    /\ RESUELTA \in ha_sido
    /\ obj_falla.estado = EN_REVISION
    /\ Establecida(obj_falla.fecha_cierre)

\* Reported -> UnderReview -> UnderRepair -> {Resolved | Invalid},
\* Resolved -> Closed
TransicionesFalla ==
    {<<REPORTADA, EN_REVISION>>, <<EN_REVISION, EN_REPARACION>>,
     <<EN_REPARACION, RESUELTA>>, <<EN_REPARACION, INVALIDA>>,
     <<RESUELTA, CERRADA>>}

\* C24: every status change a Falla operation makes is a step of Reported ->
\* UnderReview -> UnderRepair -> {Resolved | Invalid}, Resolved -> Closed:
\* never backwards, never skipping a step, never out of Closed or Invalid.
C24_FallaTransitions ==
    [][obj_falla'.estado # obj_falla.estado =>
          <<obj_falla.estado, obj_falla'.estado>> \in TransicionesFalla]_vars

\* C26: fecha_cierre records the first transition into Resuelta or Cerrada:
\* it is set, to the time of the call, only by an actualizar_estado call to
\* Resuelta or Cerrada made while it is not set, and every call made once it
\* is set leaves the stored value as it is.
C26_FechaCierreFirstTransition ==
    [][/\ Establecida(obj_falla.fecha_cierre) =>
              obj_falla'.fecha_cierre = obj_falla.fecha_cierre
       /\ (~Establecida(obj_falla.fecha_cierre)
              /\ op' = "actualizar_estado" /\ args'[1] \in EstadosDeCierre) =>
              obj_falla'.fecha_cierre = isoformat(reloj)
       /\ (~Establecida(obj_falla.fecha_cierre)
              /\ Establecida(obj_falla'.fecha_cierre)) =>
              op' = "actualizar_estado" /\ args'[1] \in EstadosDeCierre]_vars

\* C26 witness: a failure resolved at time 0 and moved back has been resolved
\* again at time 2 and carries the fecha_cierre of time 0.
C26_Witness ==
    /\ op = "actualizar_estado"
    /\ args = <<RESUELTA>>
    /\ reloj = 2
    /\ EN_REPARACION \in ha_sido
    /\ obj_falla.estado = RESUELTA
    /\ obj_falla.fecha_cierre = isoformat(0)

\* C27: asignar_tecnico sets asignado_a to the given name, changes the status
\* only from Reportada, to En Revision, and leaves fecha_cierre as it is.
C27_AsignarTecnico ==
    [][op' = "asignar_tecnico" =>
          /\ obj_falla'.asignado_a = args'[1]
          /\ obj_falla'.estado = IF obj_falla.estado = REPORTADA
                                 THEN EN_REVISION ELSE obj_falla.estado
          /\ obj_falla'.fecha_cierre = obj_falla.fecha_cierre]_vars

\* C27 witness: a technician has been assigned to a closed failure, which is
\* still closed and carries its fecha_cierre.
C27_Witness ==
    /\ op = "asignar_tecnico"
    /\ obj_falla.asignado_a = args[1]
    /\ obj_falla.estado = CERRADA
    /\ Establecida(obj_falla.fecha_cierre)

(***************************************************************************)
(* OrdenTrabajo objects.                                                   *)
(***************************************************************************)
\* C22: in every state reachable by iniciar_trabajo, pausar_trabajo,
\* reanudar_trabajo, completar_trabajo and agregar_material calls, fecha_fin
\* present implies status Completada.
C22_FechaFinImpliesCompletada ==
    Establecida(obj_orden.fecha_fin) => obj_orden.estado = COMPLETADA

\* C22 witness: pausar_trabajo has been called on a completed order, which
\* carries its fecha_fin and is still Completada.
C22_Witness ==
    /\ op = "pausar_trabajo"
    /\ Establecida(obj_orden.fecha_fin)
    /\ obj_orden.estado = COMPLETADA

\* Pending/Scheduled -> InProgress, InProgress <-> Paused,
\* InProgress/Paused -> Completed, non-terminal -> Cancelled
TransicionesOrden ==
    {<<PENDIENTE, EN_PROCESO>>, <<PROGRAMADA, EN_PROCESO>>,
     <<EN_PROCESO, PAUSADA>>, <<PAUSADA, EN_PROCESO>>,
     <<EN_PROCESO, COMPLETADA>>, <<PAUSADA, COMPLETADA>>}
    \cup {<<e, CANCELADA>> : e \in {PENDIENTE, PROGRAMADA, EN_PROCESO, PAUSADA}}

\* C23: every status change an OrdenTrabajo operation makes is one of the
\* transitions above: Completada and Cancelada are terminal and Completada is
\* never entered from Pendiente, Programada or Cancelada.
C23_OrdenTransitions ==
    [][obj_orden'.estado # obj_orden.estado =>
          <<obj_orden.estado, obj_orden'.estado>> \in TransicionesOrden]_vars

\* C25: iniciar_trabajo acts only from Pendiente or Programada,
\* pausar_trabajo only from En Proceso, reanudar_trabajo only from Pausada;
\* called in any other status each leaves every field of the order as it is.
C25_GuardedOperations ==
    [][/\ op' = "iniciar_trabajo" =>
              IF obj_orden.estado \in {PENDIENTE, PROGRAMADA}
              THEN obj_orden'.estado = EN_PROCESO
              ELSE obj_orden' = obj_orden
       /\ op' = "pausar_trabajo" =>
              IF obj_orden.estado = EN_PROCESO
              THEN obj_orden'.estado = PAUSADA
              ELSE obj_orden' = obj_orden
       /\ op' = "reanudar_trabajo" =>
              IF obj_orden.estado = PAUSADA
              THEN obj_orden'.estado = EN_PROCESO
              ELSE obj_orden' = obj_orden]_vars

\* C25 witness: iniciar_trabajo has been called on a cancelled order with a
\* material, which has no fecha_inicio and is still cancelled.
C25_Witness ==
    /\ op = "iniciar_trabajo"
    /\ obj_orden.estado = CANCELADA
    /\ Len(obj_orden.materiales) = 1
    /\ ~Establecida(obj_orden.fecha_inicio)

RECURSIVE CostoMateriales(_, _)
CostoMateriales(materiales, i) ==
    IF i = 0 THEN 0
    ELSE CostoMateriales(materiales, i - 1)
         + (IF Establecida(materiales[i].costo_unitario)
            THEN materiales[i].cantidad.v[1] * materiales[i].costo_unitario.v[1]
            ELSE 0)

\* C30: for an order created with no costo_estimado and no materials, each
\* agregar_material call appends its material to materiales and no other
\* call changes the list; costo_estimado is the sum of cantidad *
\* costo_unitario over the materials that have a unit cost, None when none
\* has; agregar_material leaves status, fecha_inicio and fecha_fin as they
\* are.
C30_AgregarMaterial ==
    /\ [](LET m == obj_orden.materiales
          IN  IF \E i \in 1..Len(m) : Establecida(m[i].costo_unitario)
              THEN obj_orden.costo_estimado = Num(CostoMateriales(m, Len(m)))
              ELSE obj_orden.costo_estimado = None)
    /\ [][IF op' = "agregar_material"
          THEN /\ obj_orden'.materiales
                      = Append(obj_orden.materiales,
                               [nombre |-> args'[1], cantidad |-> args'[2],
                                unidad |-> args'[3], costo_unitario |-> args'[4]])
               /\ obj_orden'.estado = obj_orden.estado
               /\ obj_orden'.fecha_inicio = obj_orden.fecha_inicio
               /\ obj_orden'.fecha_fin = obj_orden.fecha_fin
          ELSE obj_orden'.materiales = obj_orden.materiales]_vars

\* C30 witness: two materials added, 2 units at 3 and then 1 unit with no
\* unit cost, to an order that is in process: costo_estimado is 6.
C30_Witness ==
    /\ op = "agregar_material"
    /\ obj_orden.estado = EN_PROCESO
    /\ Len(obj_orden.materiales) = 2
    /\ obj_orden.materiales[1].cantidad = Num(2)
    /\ obj_orden.materiales[1].costo_unitario = Num(3)
    /\ obj_orden.materiales[2].costo_unitario = None
    /\ obj_orden.costo_estimado = Num(6)

(***************************************************************************)
(* calcular_kpis_activo: intervals and the range of disponibilidad.        *)
(***************************************************************************)
ConFechaReporte(f) == f.fecha_reporte.tag # "absent"
IntervalosEsperados(num_fallas) == IF num_fallas < 1 THEN 0 ELSE num_fallas - 1

\* C28: in the result of calcular_kpis_activo, whenever every Resuelta or
\* Cerrada failure carries a fecha_reporte, num_intervalos_mtbf is
\* max(0, num_fallas - 1); in all cases it is at most that, and mtbf_horas is
\* 0.0 whenever num_intervalos_mtbf is 0.
C28_IntervalCount ==
    (KpisDone /\ Returned(ret)) =>
        /\ (\A i \in 1..Len(args[1]) :
                EsResueltaOCerrada(args[1][i]) => ConFechaReporte(args[1][i])) =>
               ret.val.num_intervalos_mtbf = IntervalosEsperados(ret.val.num_fallas)
        /\ ret.val.num_intervalos_mtbf <= IntervalosEsperados(ret.val.num_fallas)
        /\ ret.val.num_intervalos_mtbf = 0 => ret.val.mtbf_horas = Zero

TiempoNoNegativo(f) ==
    f.tiempo_fuera_servicio_h.tag = "num" => f.tiempo_fuera_servicio_h.v[1] >= 0

\* C29: for every input whose downtime hours are non-negative, the
\* disponibilidad returned by calcular_kpis_activo lies in (0, 1]: it is
\* never 0.0.
C29_DisponibilidadRange ==
    (/\ KpisDone /\ Returned(ret)
     /\ \A i \in 1..Len(args[1]) : TiempoNoNegativo(args[1][i])) =>
        /\ RLt(Zero, ret.val.disponibilidad)
        /\ RLe(ret.val.disponibilidad, One)

\* C29 witness: failures two days apart with downtimes 2 and 4: MTBF 48,
\* MTTR 3, disponibilidad 48/51.
C29_Witness ==
    /\ KpisDone
    /\ Returned(ret)
    /\ ret.val.mtbf_horas = FromInt(48)
    /\ ret.val.mttr_horas = FromInt(3)
    /\ ret.val.disponibilidad = Rat(48, 51)

====
